---- MODULE Spec2Model ----
(***************************************************************************)
(* Model of the dask-aware reprojection graph builder of odc.algo          *)
(* (libs/algo/odc/algo/_warp.py): dask_reproject builds an explicit task   *)
(* graph, one task per output block, and _reproject_block_impl is the      *)
(* task body run when the lazy array is evaluated.                         *)
(*                                                                         *)
(* Grids are axis-aligned rasters of one CRS and one resolution (1 world   *)
(* unit per pixel), placed on the integer lattice: a GeoBox is             *)
(* [y0, x0, shape], the world position of its top-left corner and its      *)
(* pixel shape <<rows, cols>>.  An optional value (None | v) is a          *)
(* sequence of length 0 or 1.  Indices are 0-based as in the source.       *)
(*                                                                         *)
(* The module also holds the queue tools of old/dea/io/qasync.py           *)
(* (specifications SpecMap, SpecNmap and SpecGen) and queue_to_odc of      *)
(* apps/dc_tools/odc/apps/dc_tools/sqs_to_dc.py (specification SpecSqs).   *)
(* Each specification runs one program and leaves the variables of the     *)
(* others untouched.                                                       *)
(***************************************************************************)
EXTENDS Integers, Sequences, FiniteSets, TLC

\* ---------------------------------------------------------------- bounds
MaxDst == 3      \* destination grid: rows, cols in 1..MaxDst
MaxSrc == 2      \* source grid: rows, cols in 1..MaxSrc
MaxChunk == 2    \* requested / existing row and col chunk size in 1..MaxChunk

\* ------------------------------------------------------- generic helpers
Min(a, b) == IF a < b THEN a ELSE b

\* math.floor(a / b) and math.ceil(a / b) for b > 0
Floor(a, b) == a \div b

Ceil(a, b) == 0 - ((0 - a) \div b)

RECURSIVE SumSeq(_)
SumSeq(s) == IF s = <<>> THEN 0 ELSE Head(s) + SumSeq(Tail(s))

MaxSeq(s) == CHOOSE m \in {s[i] : i \in DOMAIN s} : \A i \in DOMAIN s : s[i] <= m

Range(s) == {s[i] : i \in DOMAIN s}

\* tuple(map(len, chunks))
Lens(chs) == [i \in DOMAIN chs |-> Len(chs[i])]

\* s[:n] and s[n:] of Python
Take(s, n) == SubSeq(s, 1, Min(n, Len(s)))

Drop(s, n) == SubSeq(s, n + 1, Len(s))

\* np.ndindex(dims) / itertools.product order: row-major sequence of 0-based tuples
RECURSIVE NdIndexSeq(_)
NdIndexSeq(dims) ==
    IF dims = <<>> THEN << <<>> >>
    ELSE LET rest == NdIndexSeq(Tail(dims))
             n == Len(rest)
         IN [p \in 1..(dims[1] * n) |-> <<(p - 1) \div n>> \o rest[((p - 1) % n) + 1]]

NdIndex(dims) == Range(NdIndexSeq(dims))

\* ------------------------------------------------------ chunked arrays
\* da.Array metadata: name, shape, chunks (a tuple of tuples of block sizes)
Array(name, shape, chs) == [name |-> name, shape |-> shape, chunks |-> chs]

\* da.Array.chunksize: the largest block size along each axis
chunksize(a) == [i \in DOMAIN a.chunks |-> MaxSeq(a.chunks[i])]

\* shape of block blk (0-based block index) of array a
BlockShape(a, blk) == [i \in DOMAIN blk |-> a.chunks[i][blk[i] + 1]]

\* regular chunking of an axis of extent n by blocks of c
RegularChunks(c, n) ==
    LET nb == n \div c
        last == n - c * nb
    IN [i \in 1..nb |-> c] \o (IF last = 0 THEN <<>> ELSE <<last>>)

\* ------------------------------------------------------------ geometry
GeoBox(y0, x0, shape) == [y0 |-> y0, x0 |-> x0, shape |-> shape]

\* GeoBox.extent: the footprint rectangle [y1, y2] x [x1, x2] in world units
extent(g) == [y1 |-> g.y0, y2 |-> g.y0 + g.shape[1],
              x1 |-> g.x0, x2 |-> g.x0 + g.shape[2]]

\* Geometry.intersects of two rectangles: closed sets sharing a point
intersects(a, b) ==
    /\ a.y1 <= b.y2 /\ b.y1 <= a.y2
    /\ a.x1 <= b.x2 /\ b.x1 <= a.x2

\* a pixel window: rows r0..r1-1 and cols c0..c1-1 (a pair of slices)
Roi(r0, r1, c0, c1) == [r0 |-> r0, r1 |-> r1, c0 |-> c0, c1 |-> c1]

RoiShape(roi) == <<roi.r1 - roi.r0, roi.c1 - roi.c0>>

\* GeoBox.__getitem__(roi): the grid windowed by a pixel window
GeoBoxCrop(g, roi) == GeoBox(g.y0 + roi.r0, g.x0 + roi.c0, RoiShape(roi))

clamp(x, lo, hi) == IF x < lo THEN lo ELSE IF x > hi THEN hi ELSE x

\* --------------------------------------------- destination tile grid
\* GeoboxTiles(box, tile_shape): the partition of box into tiles
GeoboxTiles(box, tile_shape) ==
    [base |-> box,
     tile_shape |-> tile_shape,
     shape |-> <<Ceil(box.shape[1], tile_shape[1]), Ceil(box.shape[2], tile_shape[2])>>]

\* GeoboxTiles.__getitem__(idx): the grid of tile idx (edge tiles are smaller)
TileGeobox(gbt, idx) ==
    LET r0 == idx[1] * gbt.tile_shape[1]
        c0 == idx[2] * gbt.tile_shape[2]
    IN GeoBoxCrop(gbt.base,
                  Roi(r0, Min(r0 + gbt.tile_shape[1], gbt.base.shape[1]),
                      c0, Min(c0 + gbt.tile_shape[2], gbt.base.shape[2])))

\* clamped_range(v1 / s, v2 / s, N) of GeoboxTiles.range_from_bbox, as a sequence
clamped_range(v1, v2, s, N) ==
    LET in_ == clamp(Floor(v1, s), 0, N)
        out == clamp(Ceil(v2, s), 0, N)
    IN [p \in 1..(out - in_) |-> in_ + p - 1]

\* GeoboxTiles.range_from_bbox: tile rows and tile cols a bounding box spans
range_from_bbox(gbt, bbox) ==
    <<clamped_range(bbox.y1 - gbt.base.y0, bbox.y2 - gbt.base.y0,
                    gbt.tile_shape[1], gbt.shape[1]),
      clamped_range(bbox.x1 - gbt.base.x0, bbox.x2 - gbt.base.x0,
                    gbt.tile_shape[2], gbt.shape[2])>>

\* GeoboxTiles.tiles(polygon): the tiles of the bounding-box range whose
\* extent intersects the polygon, in itertools.product order
tiles(gbt, poly) ==
    LET rng == range_from_bbox(gbt, poly)
        cand == [p \in 1..(Len(rng[1]) * Len(rng[2])) |->
                    <<rng[1][((p - 1) \div Len(rng[2])) + 1],
                      rng[2][((p - 1) % Len(rng[2])) + 1]>>]
    IN SelectSeq(cand, LAMBDA idx : intersects(extent(TileGeobox(gbt, idx)), poly))

\* compute_reproject_roi(src, dst): the source window covering dst's footprint
\* and the destination window it fills, both clipped to their grids
compute_reproject_roi(src, dst) ==
    [roi_src |-> Roi(clamp(dst.y0 - src.y0, 0, src.shape[1]),
                     clamp(dst.y0 + dst.shape[1] - src.y0, 0, src.shape[1]),
                     clamp(dst.x0 - src.x0, 0, src.shape[2]),
                     clamp(dst.x0 + dst.shape[2] - src.x0, 0, src.shape[2])),
     roi_dst |-> Roi(clamp(src.y0 - dst.y0, 0, dst.shape[1]),
                     clamp(src.y0 + src.shape[1] - dst.y0, 0, dst.shape[1]),
                     clamp(src.x0 - dst.x0, 0, dst.shape[2]),
                     clamp(src.x0 + src.shape[2] - dst.x0, 0, dst.shape[2]))]

\* ----------------------------------------------- helpers of odc.algo._dask
\* unpack_chunksize(chunk, N): the tile sizes of an axis of N pixels
unpack_chunksize(chunk, N) ==
    IF chunk >= N THEN <<N>> ELSE RegularChunks(chunk, N)

\* name of the array crop_2d_dense makes from array a and window roi
CropName(a, roi) == [base |-> a.name.base, crop |-> <<roi.r0, roi.r1, roi.c0, roi.c1>>]

\* crop_2d_dense(src, roi, axis): src cropped to roi along rows/cols, as a lazy
\* array with a single block along these two axes
crop_2d_dense(a, roi, ax) ==
    Array(CropName(a, roi),
          Take(a.shape, ax) \o RoiShape(roi) \o Drop(a.shape, ax + 2),
          Take(a.chunks, ax) \o <<<<roi.r1 - roi.r0>>, <<roi.c1 - roi.c0>>>>
              \o Drop(a.chunks, ax + 2))

\* mk_empty(bshape) of empty_maker(fill_value, dtype, dsk): a constant-fill task
mk_empty(bshape, fill, dtype) ==
    [kind |-> "fill", shape |-> bshape, fill_value |-> fill, dtype |-> dtype]

\* -------------------------------------------------- the resample task body
\* one invocation of rio_reproject(src, dst, ...): the leading index it was
\* given the slice of (<<>> for the whole block) and the shapes of src and dst
RioCall(prefix, src_shape, dst_shape) ==
    [prefix |-> prefix, src |-> src_shape, dst |-> dst_shape]

\* faulty variant: the output keeps the source block's row/col extent
ImplDstShapeOfSrc(src_shape, dst_geobox, ax) == src_shape

\* dst_shape of _reproject_block_impl
ImplDstShape(src_shape, dst_geobox, ax) ==
    Take(src_shape, ax) \o dst_geobox.shape \o Drop(src_shape, ax + 2)

\* faulty variant: the block is always handed to rio_reproject whole, in one call
reproject_block_impl_whole(src_shape, src_geobox, dst_geobox, ax) ==
    [shape |-> ImplDstShape(src_shape, dst_geobox, ax),
     calls |-> <<RioCall(<<>>, src_shape, ImplDstShape(src_shape, dst_geobox, ax))>>]

\* _reproject_block_impl(src, src_geobox, dst_geobox, ..., axis): the shape of
\* the block it returns and the rio_reproject invocations it makes
reproject_block_impl(src_shape, src_geobox, dst_geobox, ax) ==
    LET dst_shape == ImplDstShape(src_shape, dst_geobox, ax)
        prefixes == NdIndexSeq(Take(src_shape, ax))
    IN [shape |-> dst_shape,
        calls |-> IF Len(dst_shape) = 2 \/ (Len(dst_shape) = 3 /\ ax = 1)
                  THEN <<RioCall(<<>>, src_shape, dst_shape)>>
                  ELSE [p \in DOMAIN prefixes |->
                           RioCall(prefixes[p], Drop(src_shape, ax), Drop(dst_shape, ax))]]

\* ------------------------------------------------------------- state
VARIABLES
    arg,                  \* the arguments of the call of dask_reproject
    pc,                   \* where the call, then the evaluation, stands
    error,                \* "none", or what was raised
    chunks,               \* local chunks (<<>> is None)
    dst_nodata,           \* local dst_nodata (<<>> is None)
    xy_chunks_with_data,  \* list(gbt.tiles(src_geobox.extent))
    i,                    \* position of the loop over xy_chunks_with_data
    dsk,                  \* the task mapping: block key -> task
    deps,                 \* the dependency list
    result,               \* the returned da.Array (<<>> before it is returned)
    e,                    \* position of the evaluation among the result's blocks
    computed,             \* evaluated blocks: block key -> block
    executed              \* keys of the resample tasks run, in order

\* the state of the queue tools of dea.io.qasync (old/dea/io/qasync.py)
VARIABLES
    cfg,                  \* the arguments of the call and the choices of its harness
    queues,               \* queue name -> [items, unfinished, maxsize]
    worker,               \* coroutine index -> locals of async_q2q_map / gen2q worker
    main,                 \* locals of the awaiting coroutine (q2q_nmap, gen2q_async, test)
    pump,                 \* locals of output_loop
    producer,             \* how many elements run_producer has put
    consumed,             \* what the consumer has taken from q_out, in order
    state,                \* the SimpleNamespace shared by the calls of func
    hist                  \* record of the puts, gets, task_done calls, and of func

\* the state of queue_to_odc (apps/dc_tools/odc/apps/dc_tools/sqs_to_dc.py)
VARIABLES
    messages,             \* the messages of the queue: what each holds, deleted or not
    dc,                   \* the datacube index: ids archived, added, updated
    qto                   \* arguments and locals of queue_to_odc

warp_vars == <<arg, pc, error, chunks, dst_nodata, xy_chunks_with_data, i, dsk, deps,
               result, e, computed, executed>>

queue_vars == <<cfg, queues, worker, main, pump, producer, consumed, state, hist>>

sqs_vars == <<messages, dc, qto>>

vars == <<warp_vars, queue_vars, sqs_vars>>

\* a specification of one program leaves the variables of the others as they
\* are before any call
NoQueueCall ==
    /\ cfg = <<>>
    /\ queues = <<>>
    /\ worker = <<>>
    /\ main = <<>>
    /\ pump = <<>>
    /\ producer = 0
    /\ consumed = <<>>
    /\ state = <<>>
    /\ hist = <<>>

NoSqsCall ==
    /\ messages = <<>>
    /\ dc = <<>>
    /\ qto = <<>>

\* ------------------------------------------------------------ inputs
\* chunking of the axes before row/col: axis is the number of such axes
PrefixChoices == {<<>>, << <<2, 1>> >>, << <<1>>, <<2>> >>}

\* chunking of the axes after row/col of an array with a band axis
BandChunks == << <<2>> >>

SrcNodataChoices == {<<>>, <<255>>}

DstNodataChoices == {<<>>, <<254>>}

\* chunks argument: None or (rows, cols)
ChunkChoices == {<<>>} \cup ((1..MaxChunk) \X (1..MaxChunk))

\* row/col chunk size of the source array; it is read only when chunks is None
SrcChunkChoices(ch, rows, cols) ==
    IF ch = <<>> THEN (1..Min(MaxChunk, rows)) \X (1..Min(MaxChunk, cols))
    ELSE {<<rows, cols>>}

\* the source array: prefix axes, rows, cols, and the axes after them
SrcArray(pre, rows, cols, sc, post) ==
    Array([base |-> "src", crop |-> <<>>],
          [p \in DOMAIN pre |-> SumSeq(pre[p])] \o <<rows, cols>>
              \o [p \in DOMAIN post |-> SumSeq(post[p])],
          pre \o <<RegularChunks(sc[1], rows), RegularChunks(sc[2], cols)>> \o post)

\* a call of dask_reproject: a well-formed one (v = "ok"), one whose array has
\* one row more than its grid ("mismatch"), one with a band axis after row/col
\* ("trailing")
Call(dshape, sshape, oy, ox, ch, sc, pre, v, sn, dn) ==
    [src |-> SrcArray(pre, IF v = "mismatch" THEN sshape[1] + 1 ELSE sshape[1], sshape[2],
                      sc, IF v = "trailing" THEN BandChunks ELSE <<>>),
     src_geobox |-> GeoBox(oy, ox, sshape),
     dst_geobox |-> GeoBox(0, 0, dshape),
     resampling |-> "nearest",
     chunks |-> ch,
     src_nodata |-> sn,
     dst_nodata |-> dn,
     axis |-> Len(pre),
     dtype |-> "uint8"]

\* positions of the source grid's corner relative to the destination's: from
\* wholly above/left of it to wholly below/right of it
Offsets == (1 - MaxSrc)..MaxDst

Init ==
    /\ \E dshape \in (1..MaxDst) \X (1..MaxDst), sshape \in (1..MaxSrc) \X (1..MaxSrc),
          oy \in Offsets, ox \in Offsets,
          ch \in ChunkChoices, pre \in PrefixChoices,
          v \in {"ok", "mismatch", "trailing"},
          sn \in SrcNodataChoices, dn \in DstNodataChoices :
         \E sc \in SrcChunkChoices(ch, IF v = "mismatch" THEN sshape[1] + 1 ELSE sshape[1],
                                   sshape[2]) :
            \* the malformed calls are taken with aligned grids and no nodata
            /\ v = "ok" \/ (oy = 0 /\ ox = 0 /\ sn = <<>> /\ dn = <<>>)
            /\ arg = Call(dshape, sshape, oy, ox, ch, sc, pre, v, sn, dn)
    /\ pc = "start"
    /\ error = "none"
    /\ chunks = arg.chunks
    /\ dst_nodata = arg.dst_nodata
    /\ xy_chunks_with_data = <<>>
    /\ i = 1
    /\ dsk = <<>>
    /\ deps = <<>>
    /\ result = <<>>
    /\ e = 1
    /\ computed = <<>>
    /\ executed = <<>>
    /\ NoQueueCall
    /\ NoSqsCall

\* ------------------------------------------- locals of dask_reproject
axis == arg.axis

\* faulty variant: the source grid's shape is taken for the destination's
yx_shape_of_src == arg.src_geobox.shape

yx_shape == arg.dst_geobox.shape

yx_chunks == <<unpack_chunksize(chunks[1], yx_shape[1]),
               unpack_chunksize(chunks[2], yx_shape[2])>>

dst_chunks == Take(arg.src.chunks, axis) \o yx_chunks \o Drop(arg.src.chunks, axis + 2)

dst_shape == Take(arg.src.shape, axis) \o yx_shape \o Drop(arg.src.shape, axis + 2)

\* faulty variant: the prefix extents are taken for the prefix block counts
dims1_extents == Take(arg.src.shape, axis)

dims1 == Lens(Take(dst_chunks, axis))

dims2 == Lens(Drop(dst_chunks, axis + 2))

gbt == GeoboxTiles(arg.dst_geobox, chunks)

\* faulty variant: the fill value ignores the default taken from src_nodata
fill_value_no_default == IF arg.dst_nodata = <<>> THEN 0 ELSE arg.dst_nodata[1]

fill_value == IF dst_nodata = <<>> THEN 0 ELSE dst_nodata[1]

shape_in_blocks == Lens(dst_chunks)

\* faulty variant: the tiles are those of the destination's own footprint: all of them
TilesOfDst == tiles(gbt, extent(arg.dst_geobox))

\* line 91: list(gbt.tiles(src_geobox.extent))
TilesWithData == tiles(gbt, extent(arg.src_geobox))

\* faulty variant: the task is given the whole source grid
ResampleTaskWholeGrid(_src, ii1, _src_geobox, _dst_geobox) ==
    [kind |-> "resample",
     arr |-> _src.name,
     block |-> ii1 \o <<0, 0>>,
     src_geobox |-> arg.src_geobox,
     dst_geobox |-> _dst_geobox,
     resampling |-> arg.resampling,
     src_nodata |-> arg.src_nodata,
     dst_nodata |-> dst_nodata,
     axis |-> axis]

\* the task tuple registered at a block of tile idx
ResampleTask(_src, ii1, _src_geobox, _dst_geobox) ==
    [kind |-> "resample",
     arr |-> _src.name,
     block |-> ii1 \o <<0, 0>>,
     src_geobox |-> _src_geobox,
     dst_geobox |-> _dst_geobox,
     resampling |-> arg.resampling,
     src_nodata |-> arg.src_nodata,
     dst_nodata |-> dst_nodata,
     axis |-> axis]

\* dsk with the tasks of the mapping new written (dict assignment per key)
Assign(d, new) ==
    [k \in DOMAIN d \cup DOMAIN new |-> IF k \in DOMAIN new THEN new[k] ELSE d[k]]

\* ------------------------------------------------------------ actions
\* faulty variant: the shape assertion is left out
CheckSrcShapeNoAssert ==
    /\ pc = "start"
    /\ chunks' = IF arg.chunks = <<>>
                 THEN SubSeq(chunksize(arg.src), axis + 1, axis + 2)
                 ELSE arg.chunks
    /\ dst_nodata' = IF arg.dst_nodata = <<>> THEN arg.src_nodata ELSE arg.dst_nodata
    /\ pc' = "prepare"
    /\ UNCHANGED <<arg, error, xy_chunks_with_data, i, dsk, deps, result, e, computed,
                   executed>>
    /\ UNCHANGED <<queue_vars, sqs_vars>>

\* lines 70-76: the defaults of chunks and dst_nodata, then the shape assertion
CheckSrcShape ==
    /\ pc = "start"
    /\ chunks' = IF arg.chunks = <<>>
                 THEN SubSeq(chunksize(arg.src), axis + 1, axis + 2)
                 ELSE arg.chunks
    /\ dst_nodata' = IF arg.dst_nodata = <<>> THEN arg.src_nodata ELSE arg.dst_nodata
    /\ IF SubSeq(arg.src.shape, axis + 1, axis + 2) = arg.src_geobox.shape
       THEN pc' = "prepare" /\ error' = error
       ELSE pc' = "raised" /\ error' = "AssertionError: src shape"
    /\ UNCHANGED <<arg, xy_chunks_with_data, i, dsk, deps, result, e, computed, executed>>
    /\ UNCHANGED <<queue_vars, sqs_vars>>

\* faulty variant: the assertion on dims2 is left out
PrepareNoAssert ==
    /\ pc = "prepare"
    /\ deps' = <<arg.src>>
    /\ xy_chunks_with_data' = TilesWithData
    /\ pc' = "resample_loop"
    /\ i' = 1
    /\ dsk' = <<>>
    /\ UNCHANGED <<arg, error, chunks, dst_nodata, result, e, computed, executed>>
    /\ UNCHANGED <<queue_vars, sqs_vars>>

\* lines 77-94: the destination chunking, the assertion that no axis follows
\* row/col, the tiles with data, and the empty task mapping
Prepare ==
    /\ pc = "prepare"
    /\ IF dims2 = <<>>
       THEN /\ deps' = <<arg.src>>
            /\ xy_chunks_with_data' = TilesWithData
            /\ pc' = "resample_loop"
            /\ error' = error
       ELSE /\ pc' = "raised"
            /\ error' = "AssertionError: dims2"
            /\ UNCHANGED <<deps, xy_chunks_with_data>>
    /\ i' = 1
    /\ dsk' = <<>>
    /\ UNCHANGED <<arg, chunks, dst_nodata, result, e, computed, executed>>
    /\ UNCHANGED <<queue_vars, sqs_vars>>

\* faulty variant: the loop calls _reproject_block_impl instead of registering it
ResampleLoopEager ==
    /\ pc = "resample_loop"
    /\ i <= Len(xy_chunks_with_data)
    /\ LET idx == xy_chunks_with_data[i]
           _dst_geobox == TileGeobox(gbt, idx)
           rr == compute_reproject_roi(arg.src_geobox, _dst_geobox)
           _src == crop_2d_dense(arg.src, rr.roi_src, axis)
           _src_geobox == GeoBoxCrop(arg.src_geobox, rr.roi_src)
           task(k) == ResampleTask(_src, Take(k, axis), _src_geobox, _dst_geobox)
       IN /\ deps' = Append(deps, _src)
          /\ dsk' = Assign(dsk, [k \in {ii1 \o idx : ii1 \in NdIndex(dims1)} |-> task(k)])
          /\ executed' = executed \o [p \in DOMAIN NdIndexSeq(dims1) |-> NdIndexSeq(dims1)[p] \o idx]
    /\ i' = i + 1
    /\ UNCHANGED <<arg, pc, error, chunks, dst_nodata, xy_chunks_with_data, result, e,
                   computed>>
    /\ UNCHANGED <<queue_vars, sqs_vars>>

\* lines 96-113: one iteration of the loop over the tiles with data
ResampleLoop ==
    /\ pc = "resample_loop"
    /\ i <= Len(xy_chunks_with_data)
    /\ LET idx == xy_chunks_with_data[i]
           _dst_geobox == TileGeobox(gbt, idx)
           rr == compute_reproject_roi(arg.src_geobox, _dst_geobox)
           _src == crop_2d_dense(arg.src, rr.roi_src, axis)
           _src_geobox == GeoBoxCrop(arg.src_geobox, rr.roi_src)
           task(k) == ResampleTask(_src, Take(k, axis), _src_geobox, _dst_geobox)
       IN /\ deps' = Append(deps, _src)
          /\ dsk' = Assign(dsk, [k \in {ii1 \o idx : ii1 \in NdIndex(dims1)} |-> task(k)])
    /\ i' = i + 1
    /\ UNCHANGED <<arg, pc, error, chunks, dst_nodata, xy_chunks_with_data, result, e,
                   computed, executed>>
    /\ UNCHANGED <<queue_vars, sqs_vars>>

\* line 96: the loop over the tiles is over
EndResampleLoop ==
    /\ pc = "resample_loop"
    /\ i > Len(xy_chunks_with_data)
    /\ pc' = "fill_loop"
    /\ UNCHANGED <<arg, error, chunks, dst_nodata, xy_chunks_with_data, i, dsk, deps, result,
                   e, computed, executed>>
    /\ UNCHANGED <<queue_vars, sqs_vars>>

\* block shape of block coordinate idx: tuple(ch[i] for ch, i in zip(dst_chunks, idx))
bshape(idx) == [a \in DOMAIN idx |-> dst_chunks[a][idx[a] + 1]]

\* faulty variant: the loop takes every key, as if none were in dsk
MissingKeysAll(d) == NdIndex(shape_in_blocks)

\* the keys the loop over np.ndindex(shape_in_blocks) finds not in dsk
MissingKeys(d) == {k \in NdIndex(shape_in_blocks) : k \notin DOMAIN d}

\* lines 115-125: the loop over all block coordinates: every key not in dsk gets
\* a constant-fill task of the block's shape
FillLoop ==
    /\ pc = "fill_loop"
    /\ LET task(k) == mk_empty(bshape(k), fill_value, arg.dtype)
       IN dsk' = Assign(dsk, [k \in MissingKeys(dsk) |-> task(k)])
    /\ pc' = "return"
    /\ UNCHANGED <<arg, error, chunks, dst_nodata, xy_chunks_with_data, i, deps, result,
                   e, computed, executed>>
    /\ UNCHANGED <<queue_vars, sqs_vars>>

\* lines 127-133: the graph is wrapped as the lazy array and returned
Return ==
    /\ pc = "return"
    /\ result' = <<[dsk |-> dsk, deps |-> deps, chunks |-> dst_chunks,
                    dtype |-> arg.dtype, shape |-> dst_shape]>>
    /\ pc' = "returned"
    /\ e' = 1
    /\ UNCHANGED <<arg, error, chunks, dst_nodata, xy_chunks_with_data, i, dsk, deps,
                   computed, executed>>
    /\ UNCHANGED <<queue_vars, sqs_vars>>

\* ------------------------------------------- evaluation of the result
\* the array of the dependency list a task's source key names
Dep(g, name) == CHOOSE d \in Range(g.deps) : d.name = name

\* the block a task of the graph makes when it runs without error: a constant
\* block for np.full, the output of _reproject_block_impl for a resample task
RunTask(g, t) ==
    IF t.kind = "fill"
    THEN [kind |-> "const", shape |-> t.shape, value |-> <<t.fill_value>>, calls |-> <<>>]
    ELSE LET out == reproject_block_impl(BlockShape(Dep(g, t.arr), t.block),
                                         t.src_geobox, t.dst_geobox, t.axis)
         IN [kind |-> "resampled", shape |-> out.shape, value |-> <<>>, calls |-> out.calls]

\* the executor runs the task of the next block of the returned array; a
\* resample task may raise, which ends the evaluation with that error
Evaluate ==
    /\ pc = "returned"
    /\ e <= Len(NdIndexSeq(Lens(result[1].chunks)))
    /\ LET g == result[1]
           k == NdIndexSeq(Lens(g.chunks))[e]
       IN IF k \notin DOMAIN g.dsk
          THEN /\ pc' = "eval_raised"
               /\ error' = "KeyError"
               /\ UNCHANGED <<computed, executed>>
          ELSE LET t == g.dsk[k]
               IN /\ executed' = IF t.kind = "resample" THEN Append(executed, k) ELSE executed
                  /\ \E ok \in BOOLEAN :
                        IF ok \/ t.kind = "fill"
                        THEN /\ computed' = [b \in DOMAIN computed \cup {k} |->
                                                IF b = k THEN RunTask(g, t) ELSE computed[b]]
                             /\ UNCHANGED <<pc, error>>
                        ELSE /\ pc' = "eval_raised"
                             /\ error' = "resample error"
                             /\ UNCHANGED computed
    /\ e' = e + 1
    /\ UNCHANGED <<arg, chunks, dst_nodata, xy_chunks_with_data, i, dsk, deps, result>>
    /\ UNCHANGED <<queue_vars, sqs_vars>>

\* every block is computed: the evaluation returns the array
EndEvaluate ==
    /\ pc = "returned"
    /\ e > Len(NdIndexSeq(Lens(result[1].chunks)))
    /\ pc' = "computed"
    /\ UNCHANGED <<arg, error, chunks, dst_nodata, xy_chunks_with_data, i, dsk, deps,
                   result, e, computed, executed>>
    /\ UNCHANGED <<queue_vars, sqs_vars>>

Next ==
    \/ CheckSrcShape
    \/ Prepare
    \/ ResampleLoop
    \/ EndResampleLoop
    \/ FillLoop
    \/ Return
    \/ Evaluate
    \/ EndEvaluate

Spec == Init /\ [][Next]_vars

\* ======================================================== properties
\* the graph builder has returned its lazy array
Returned == result # <<>>

\* the block coordinates of the returned array, from its declared chunks
BlockCoords == NdIndex(Lens(result[1].chunks))

\* the tile (tile-row, tile-col) of a block coordinate
TileOf(k) == Drop(k, axis)

\* the pixel rectangle of a tile in the destination grid, from the declared
\* row/col chunks of the returned array
TileRect(t) ==
    LET rows == result[1].chunks[axis + 1]
        cols == result[1].chunks[axis + 2]
    IN [y1 |-> SumSeq(Take(rows, t[1])), y2 |-> SumSeq(Take(rows, t[1] + 1)),
        x1 |-> SumSeq(Take(cols, t[2])), x2 |-> SumSeq(Take(cols, t[2] + 1))]

\* the source grid's footprint in destination pixel coordinates
SrcRect == extent(arg.src_geobox)

DstRect == extent(arg.dst_geobox)

\* two rectangles share area
Overlaps(a, b) == a.y1 < b.y2 /\ b.y1 < a.y2 /\ a.x1 < b.x2 /\ b.x1 < a.x2

\* the fill value the contract states
ExpectedFill ==
    IF arg.dst_nodata # <<>> THEN arg.dst_nodata[1]
    ELSE IF arg.src_nodata # <<>> THEN arg.src_nodata[1]
    ELSE 0

ResampleKeys(d) == {k \in DOMAIN d : d[k].kind = "resample"}

FillKeys(d) == {k \in DOMAIN d : d[k].kind = "fill"}

\* C1: the returned graph holds a task for each block coordinate of the
\* output's shape-in-blocks, one per coordinate (the mapping is keyed by the
\* coordinate), which is either a resample task or a constant-fill task; no
\* coordinate is missing, and no resample task is registered at a key that is
\* not a coordinate, neither in the returned graph nor while it is built.
C1_OneTaskPerBlock ==
    /\ Returned =>
          /\ BlockCoords \subseteq DOMAIN result[1].dsk
          /\ \A k \in BlockCoords : result[1].dsk[k].kind \in {"resample", "fill"}
          /\ ResampleKeys(result[1].dsk) \cup FillKeys(result[1].dsk) = BlockCoords
          /\ ResampleKeys(result[1].dsk) \cap FillKeys(result[1].dsk) = {}
          /\ Cardinality(BlockCoords) =
                 Cardinality(NdIndex(Lens(Take(arg.src.chunks, axis))))
                     * Len(result[1].chunks[axis + 1]) * Len(result[1].chunks[axis + 2])
    /\ pc \in {"resample_loop", "fill_loop", "return"} =>
          DOMAIN dsk \subseteq NdIndex(shape_in_blocks)

\* C1 witness: a returned graph over unevenly divided rows (3 rows in tiles of
\* 2) and two prefix blocks that holds both kinds of task
C1_Witness ==
    /\ Returned
    /\ yx_shape[1] = 3 /\ chunks[1] = 2
    /\ Cardinality(NdIndex(dims1)) = 2
    /\ ResampleKeys(result[1].dsk) # {}
    /\ FillKeys(result[1].dsk) # {}

C3_DisjointAllFill ==
    ~intersects(DstRect, SrcRect) =>
        /\ Returned =>
              \A k \in BlockCoords :
                  /\ k \in DOMAIN result[1].dsk
                  /\ result[1].dsk[k].kind = "fill"
                  /\ result[1].dsk[k].fill_value = ExpectedFill
        /\ executed = <<>>
        /\ pc # "eval_raised"
        /\ \A k \in DOMAIN computed :
              /\ computed[k].kind = "const"
              /\ computed[k].value = <<ExpectedFill>>
              /\ computed[k].calls = <<>>
        /\ pc = "computed" => DOMAIN computed = BlockCoords

\* C3 witness: a disjoint call of several blocks is wholly evaluated
C3_Witness ==
    /\ ~intersects(DstRect, SrcRect)
    /\ pc = "computed"
    /\ Cardinality(DOMAIN computed) > 2

\* C4: every constant-fill task, and every constant block evaluated from one,
\* holds the destination-nodata value when it is given, else the source-nodata
\* value when that is given, else 0.
C4_FillValue ==
    /\ \A k \in FillKeys(dsk) : dsk[k].fill_value = ExpectedFill
    /\ \A k \in DOMAIN computed :
          computed[k].kind = "const" => computed[k].value = <<ExpectedFill>>
    /\ ExpectedFill \in {0, 254, 255}
    /\ (arg.dst_nodata = <<>> /\ arg.src_nodata = <<>>) => ExpectedFill = 0

\* C4 witness: a fill block is evaluated when only the source-nodata is given
C4_Witness ==
    /\ arg.dst_nodata = <<>> /\ arg.src_nodata = <<255>>
    /\ \E k \in DOMAIN computed : computed[k].kind = "const" /\ computed[k].value = <<255>>

\* the source array's row/col extent differs from the source grid's shape
ShapeMismatch == SubSeq(arg.src.shape, axis + 1, axis + 2) # arg.src_geobox.shape

\* the source array has an axis after row/col
TrailingAxes == Len(arg.src.shape) > axis + 2

\* nothing of a graph exists: no task, no dependency, no returned array, and
\* nothing was evaluated
NothingBuilt ==
    /\ dsk = <<>>
    /\ deps = <<>>
    /\ xy_chunks_with_data = <<>>
    /\ result = <<>>
    /\ computed = <<>>
    /\ executed = <<>>

\* C5: when the source array's row/col extent differs from the source grid's
\* pixel shape, the call fails at its first step with the shape assertion:
\* it never gets past it, no task or dependency is registered and no array is
\* returned.
C5_ShapeMismatchFails ==
    ShapeMismatch =>
        /\ pc \in {"start", "raised"}
        /\ pc = "raised" => error = "AssertionError: src shape"
        /\ pc = "start" => error = "none"
        /\ NothingBuilt

\* C5 witness: a call with a mismatching array has raised
C5_Witness ==
    /\ ShapeMismatch
    /\ pc = "raised"
    /\ error = "AssertionError: src shape"

Declared(k) == [a \in DOMAIN k |-> result[1].chunks[a][k[a] + 1]]

\* the shape of destination tile t: the requested chunk size, or what is left
\* of the grid at its lower and right edges
TileShape(t) ==
    <<Min(chunks[1], arg.dst_geobox.shape[1] - t[1] * chunks[1]),
      Min(chunks[2], arg.dst_geobox.shape[2] - t[2] * chunks[2])>>

\* C7: for every block coordinate of the returned array the block its task
\* makes, resample or constant-fill, has the chunk sizes the array declares at
\* that coordinate; its row/col extent is the destination tile's shape (edge
\* tiles are smaller) and its other extents are the source's prefix block's.
C7_BlockShapes ==
    Returned =>
        /\ \A k \in BlockCoords :
              k \in DOMAIN result[1].dsk =>
                  /\ RunTask(result[1], result[1].dsk[k]).shape = Declared(k)
                  /\ SubSeq(Declared(k), axis + 1, axis + 2) = TileShape(TileOf(k))
                  /\ Take(Declared(k), axis) = BlockShape(arg.src, Take(k, axis))
        /\ \A k \in DOMAIN computed : computed[k].shape = Declared(k)

\* C7 witness: an evaluated graph holding a resampled and a filled block of a
\* smaller edge tile
C7_Witness ==
    /\ pc = "computed"
    /\ \E k \in DOMAIN computed :
          /\ computed[k].kind = "resampled"
          /\ computed[k].shape[axis + 1] < chunks[1]
          /\ k[axis + 1] > 0
    /\ \E k \in DOMAIN computed :
          /\ computed[k].kind = "const"
          /\ computed[k].shape[axis + 2] < chunks[2]
          /\ k[axis + 2] > 0

\* C8: the returned array has the shape (prefix extents of the source,
\* destination rows, destination cols), whatever chunk size is requested; its
\* prefix axes keep the source's chunking and its row/col chunks are positive
\* tile sizes, none above the chunk size, that sum to the destination grid's
\* rows and cols.
C8_ShapeAndChunks ==
    Returned =>
        /\ result[1].shape = Take(arg.src.shape, axis) \o arg.dst_geobox.shape
        /\ Len(result[1].chunks) = Len(result[1].shape)
        /\ Take(result[1].chunks, axis) = Take(arg.src.chunks, axis)
        /\ \A a \in DOMAIN result[1].chunks : SumSeq(result[1].chunks[a]) = result[1].shape[a]
        /\ \A a \in {axis + 1, axis + 2} : \A n \in DOMAIN result[1].chunks[a] :
              /\ result[1].chunks[a][n] >= 1
              /\ result[1].chunks[a][n] <= chunks[a - axis]
              /\ n < Len(result[1].chunks[a]) => result[1].chunks[a][n] = chunks[a - axis]

\* C8 witness: a returned array whose rows are divided unevenly, whose grid
\* differs in shape from the source's, and whose chunk size came from the source
C8_Witness ==
    /\ Returned
    /\ arg.chunks = <<>>
    /\ arg.src_geobox.shape # arg.dst_geobox.shape
    /\ result[1].chunks[axis + 1] = <<2, 1>>
    /\ axis > 0

\* the shape of the source block a resample task of the returned graph reads
SrcBlockShape(t) == BlockShape(Dep(result[1], t.arr), t.block)

\* the shape _reproject_block_impl must return for task t
ExpectedBlockShape(t) ==
    Take(SrcBlockShape(t), axis) \o t.dst_geobox.shape \o Drop(SrcBlockShape(t), axis + 2)

\* one invocation of the 2-D primitive per leading index combination of the
\* source block of task t, on the 2-D slices at that index
CallsPerLeadingIndex(t) ==
    [p \in DOMAIN NdIndexSeq(Take(SrcBlockShape(t), axis)) |->
        [prefix |-> NdIndexSeq(Take(SrcBlockShape(t), axis))[p],
         src |-> SubSeq(SrcBlockShape(t), axis + 1, axis + 2),
         dst |-> t.dst_geobox.shape]]

\* one invocation on the whole block
CallOnWholeBlock(t) ==
    <<[prefix |-> <<>>, src |-> SrcBlockShape(t), dst |-> ExpectedBlockShape(t)]>>

\* C9 as stated: every block _reproject_block_impl returns has the source
\* block's shape with row/col replaced by the destination grid's shape, and
\* whenever the source block has leading axes the 2-D primitive is invoked once
\* per leading index combination on the 2-D slice at that index.
C9_Original ==
    \A k \in DOMAIN computed :
        computed[k].kind = "resampled" =>
            /\ computed[k].shape = ExpectedBlockShape(result[1].dsk[k])
            /\ axis > 0 => computed[k].calls = CallsPerLeadingIndex(result[1].dsk[k])

\* C9 (amended): every block _reproject_block_impl returns has the source
\* block's shape with row/col replaced by the destination grid's shape; a
\* block with two or more leading axes is resampled by one invocation of the
\* primitive per leading index combination, on the 2-D slices at that index; a
\* 2-D block, and a 3-D block with one leading axis, is handed to the
\* primitive whole in a single invocation.
C9_CallsPerBlock ==
    \A k \in DOMAIN computed :
        computed[k].kind = "resampled" =>
            /\ computed[k].shape = ExpectedBlockShape(result[1].dsk[k])
            /\ axis >= 2 => computed[k].calls = CallsPerLeadingIndex(result[1].dsk[k])
            /\ axis <= 1 => computed[k].calls = CallOnWholeBlock(result[1].dsk[k])

\* C9 witness: a block with two leading axes of extents (1, 2) was resampled by
\* two invocations, on a source window that differs from the tile in shape
C9_Witness ==
    /\ axis = 2
    /\ \E k \in DOMAIN computed :
          /\ computed[k].kind = "resampled"
          /\ Len(computed[k].calls) = 2
          /\ computed[k].calls[2].prefix = <<0, 1>>
          /\ computed[k].calls[2].src # computed[k].calls[2].dst

\* C10: while the graph is built, and when building it fails, no resample task
\* has run and no block was computed; building fails only on the two
\* assertions, for a malformed call; a resample error exists only once the
\* array is returned with its whole graph, as the failure of one resample task
\* of the evaluation, which was run once and left no block; no task is run
\* twice.
C10_LazyErrors ==
    /\ pc \in {"start", "prepare", "resample_loop", "fill_loop", "return", "raised"} =>
          /\ executed = <<>>
          /\ computed = <<>>
          /\ error # "resample error"
          /\ result = <<>>
    /\ pc = "raised" =>
          /\ error \in {"AssertionError: src shape", "AssertionError: dims2"}
          /\ ShapeMismatch \/ TrailingAxes
    /\ error = "resample error" =>
          /\ pc = "eval_raised"
          /\ Returned
          /\ DOMAIN result[1].dsk = BlockCoords
          /\ executed # <<>>
          /\ result[1].dsk[executed[Len(executed)]].kind = "resample"
          /\ executed[Len(executed)] \notin DOMAIN computed
    /\ \A p, q \in DOMAIN executed : p # q => executed[p] # executed[q]
    /\ Returned => Range(executed) \subseteq ResampleKeys(result[1].dsk)
    /\ pc = "eval_raised" => error = "resample error"

\* C10 witness: the evaluation of a returned graph has failed in a resample
\* task after other blocks were computed
C10_Witness ==
    /\ pc = "eval_raised"
    /\ error = "resample error"
    /\ computed # <<>>
    /\ Len(executed) > 1

\* ================================================== dea.io.qasync
\* The queue tools of old/dea/io/qasync.py: async_q2q_map, gen2q_async and
\* q2q_nmap, each run by the harness of its test.  The coroutines of one
\* event loop and the producer and consumer threads are interleaved at every
\* await and at every queue operation.  An element of a queue is a tuple of
\* integers: an item put by the producer is <<k>>, the result of func for it
\* is <<k, k>>, and the end-of-stream marker is the empty tuple.  A retry
\* after asyncio.sleep(dt) leaves the state as it is, so a step that polls a
\* queue is taken when the queue lets it through.

\* ---------------------------------------------------------------- bounds
MaxItems == 3      \* items are <<1>> .. <<MaxItems>>; run_producer puts up to MaxItems
MaxWorkers == 2    \* nconcurrent in 1..MaxWorkers
MaxQueue == 2      \* maxsize of the caller's queues in 1..MaxQueue
MaxLen == 4        \* async_q2q_map alone: q_in holds up to MaxLen elements at entry
MaxCount == 3      \* gen2q_async: func returns up to MaxCount values in all

\* line 12: the end-of-stream marker
EOS_MARKER == <<>>

Items == {<<k>> : k \in 1..MaxItems}

\* the items func raises for: none, or the item <<1>>
RaiseChoices == {{}, {<<1>>}}

Max(a, b) == IF a >= b THEN a ELSE b

\* lines 261, 302: the value proc returns for x
proc(x) == <<x[1], x[1]>>

\* --------------------------------- asyncio.Queue and queue.Queue
Queue(maxsize) == [items |-> <<>>, unfinished |-> 0, maxsize |-> maxsize]

\* the queue q1 of test_q2q_map after its put_nowait calls
QueueOf(content, maxsize) ==
    [items |-> content, unfinished |-> Len(content), maxsize |-> maxsize]

full(qu) == qu.maxsize > 0 /\ Len(qu.items) >= qu.maxsize

empty(qu) == qu.items = <<>>

\* put / put_nowait that goes through
put(Q, name, x) == [Q EXCEPT ![name].items = Append(@, x), ![name].unfinished = @ + 1]

\* get / get_nowait that goes through: the head is taken
get(Q, name) == [Q EXCEPT ![name].items = Tail(@)]

task_done(Q, name) == [Q EXCEPT ![name].unfinished = @ - 1]

\* join() returns
joined(qu) == qu.unfinished = 0

\* ------------------------------------- the record of what was done
NoHistory(names) ==
    [puts |-> [name \in names |-> <<>>],
     gets |-> [name \in names |-> <<>>],
     done |-> [name \in names |-> 0],
     calls |-> <<>>,
     returned |-> <<>>,
     logged |-> <<>>]

LogPut(H, name, x) == [H EXCEPT !.puts[name] = Append(@, x)]

LogGet(H, name, x) == [H EXCEPT !.gets[name] = Append(@, x)]

LogDone(H, name) == [H EXCEPT !.done[name] = @ + 1]

LogCall(H, x) == [H EXCEPT !.calls = Append(@, x)]

\* the variables of the other programs stay as they are
NoWarpCall ==
    /\ arg = <<>>
    /\ pc = "none"
    /\ error = "none"
    /\ chunks = <<>>
    /\ dst_nodata = <<>>
    /\ xy_chunks_with_data = <<>>
    /\ i = 1
    /\ dsk = <<>>
    /\ deps = <<>>
    /\ result = <<>>
    /\ e = 1
    /\ computed = <<>>
    /\ executed = <<>>

\* ------------------------------------------------ async_q2q_map
\* coroutine w runs async_q2q_map(func, qi, qo, eos_passthrough = pt)
MapStart == [pc |-> "get", x |-> <<>>, result |-> <<>>, err |-> <<>>]

\* faulty variant: the marker is never copied to the output queue
MapGetNoPassthrough(w, qi, pt) ==
    /\ worker[w].pc = "get"
    /\ ~empty(queues[qi])
    /\ LET x == Head(queues[qi].items)
       IN IF x = EOS_MARKER
          THEN /\ worker' = [worker EXCEPT ![w].pc = "returned"]
               /\ queues' = task_done(get(queues, qi), qi)
               /\ hist' = LogDone(LogGet(hist, qi, x), qi)
               /\ state' = state
          ELSE /\ worker' = [worker EXCEPT ![w] = [pc |-> "call", x |-> <<x>>,
                                                   result |-> <<>>, err |-> <<>>]]
               /\ queues' = get(queues, qi)
               /\ hist' = LogCall(LogGet(hist, qi, x), x)
               /\ state' = [state EXCEPT !.active = @ + 1]
    /\ UNCHANGED <<cfg, main, pump, producer, consumed>>
    /\ UNCHANGED <<warp_vars, sqs_vars>>

\* lines 55-65 (and 295 of proc): x = await q_in.get(); on the marker the call
\* goes to copy it, or calls task_done and returns; on an item func is called
MapGet(w, qi, pt) ==
    /\ worker[w].pc = "get"
    /\ ~empty(queues[qi])
    /\ LET x == Head(queues[qi].items)
       IN IF x = EOS_MARKER
          THEN IF pt
               THEN /\ worker' = [worker EXCEPT ![w].pc = "eos_put"]
                    /\ queues' = get(queues, qi)
                    /\ hist' = LogGet(hist, qi, x)
                    /\ state' = state
               ELSE /\ worker' = [worker EXCEPT ![w].pc = "returned"]
                    /\ queues' = task_done(get(queues, qi), qi)
                    /\ hist' = LogDone(LogGet(hist, qi, x), qi)
                    /\ state' = state
          ELSE /\ worker' = [worker EXCEPT ![w] = [pc |-> "call", x |-> <<x>>,
                                                   result |-> <<>>, err |-> <<>>]]
               /\ queues' = get(queues, qi)
               /\ hist' = LogCall(LogGet(hist, qi, x), x)
               /\ state' = [state EXCEPT !.active = @ + 1]
    /\ UNCHANGED <<cfg, main, pump, producer, consumed>>
    /\ UNCHANGED <<warp_vars, sqs_vars>>

\* lines 58-61: the marker is copied to the output queue, task_done, return
MapEosPut(w, qi, qo) ==
    /\ worker[w].pc = "eos_put"
    /\ ~full(queues[qo])
    /\ queues' = task_done(put(queues, qo, EOS_MARKER), qi)
    /\ hist' = LogDone(LogPut(hist, qo, EOS_MARKER), qi)
    /\ worker' = [worker EXCEPT ![w].pc = "returned"]
    /\ UNCHANGED <<cfg, main, pump, producer, consumed, state>>
    /\ UNCHANGED <<warp_vars, sqs_vars>>

\* line 65 (and 300-302 of proc): func returns its result
MapFuncReturns(w) ==
    /\ worker[w].pc = "call"
    /\ worker[w].x[1] \notin cfg.raises
    /\ worker' = [worker EXCEPT ![w].pc = "put", ![w].result = <<proc(worker[w].x[1])>>]
    /\ state' = [state EXCEPT !.max_active = Max(state.active, @), !.active = @ - 1]
    /\ UNCHANGED <<cfg, queues, main, pump, producer, consumed, hist>>
    /\ UNCHANGED <<warp_vars, sqs_vars>>

\* faulty variant: an exception of func ends the loop
MapFuncRaisesStops(w, qi) ==
    /\ worker[w].pc = "call"
    /\ worker[w].x[1] \in cfg.raises
    /\ worker' = [worker EXCEPT ![w].pc = "returned", ![w].err = <<"error">>]
    /\ state' = [state EXCEPT !.max_active = Max(state.active, @), !.active = @ - 1]
    /\ queues' = task_done(queues, qi)
    /\ hist' = LogDone([hist EXCEPT !.logged = Append(@, worker[w].x[1])], qi)
    /\ UNCHANGED <<cfg, main, pump, producer, consumed>>
    /\ UNCHANGED <<warp_vars, sqs_vars>>

\* lines 64-70, 73: func raises: the exception is logged, nothing is put,
\* task_done is called and the loop goes on
MapFuncRaises(w, qi) ==
    /\ worker[w].pc = "call"
    /\ worker[w].x[1] \in cfg.raises
    /\ worker' = [worker EXCEPT ![w].pc = "get", ![w].err = <<"error">>]
    /\ state' = [state EXCEPT !.max_active = Max(state.active, @), !.active = @ - 1]
    /\ queues' = task_done(queues, qi)
    /\ hist' = LogDone([hist EXCEPT !.logged = Append(@, worker[w].x[1])], qi)
    /\ UNCHANGED <<cfg, main, pump, producer, consumed>>
    /\ UNCHANGED <<warp_vars, sqs_vars>>

\* faulty variant: task_done is called when func returns, before the put
MapPutAfterDone(w, qi, qo) ==
    /\ worker[w].pc \in {"put", "put_done"}
    /\ IF worker[w].pc = "put"
       THEN /\ queues' = task_done(queues, qi)
            /\ hist' = LogDone(hist, qi)
            /\ worker' = [worker EXCEPT ![w].pc = "put_done"]
       ELSE /\ ~full(queues[qo])
            /\ queues' = put(queues, qo, worker[w].result[1])
            /\ hist' = LogPut(hist, qo, worker[w].result[1])
            /\ worker' = [worker EXCEPT ![w].pc = "get"]
    /\ UNCHANGED <<cfg, main, pump, producer, consumed, state>>
    /\ UNCHANGED <<warp_vars, sqs_vars>>

\* lines 70-73: await q_out.put(result); q_in.task_done()
MapPut(w, qi, qo) ==
    /\ worker[w].pc = "put"
    /\ ~full(queues[qo])
    /\ queues' = task_done(put(queues, qo, worker[w].result[1]), qi)
    /\ hist' = LogDone(LogPut(hist, qo, worker[w].result[1]), qi)
    /\ worker' = [worker EXCEPT ![w].pc = "get"]
    /\ UNCHANGED <<cfg, main, pump, producer, consumed, state>>
    /\ UNCHANGED <<warp_vars, sqs_vars>>

\* ------------------------------------------------- test_q2q_map
\* lines 266-271: what q1 holds when async_q2q_map is entered
RECURSIVE Contents(_)
Contents(len) ==
    IF len = 0 THEN {<<>>}
    ELSE Contents(len - 1)
         \cup {Append(s, x) : s \in Contents(len - 1), x \in Items \cup {EOS_MARKER}}

\* line 274: async_q2q_map has returned to run_test
TestAwaitMap ==
    /\ main.pc = "await_map"
    /\ worker[1].pc = "returned"
    /\ main' = [main EXCEPT !.pc = "join"]
    /\ UNCHANGED <<cfg, queues, worker, pump, producer, consumed, state, hist>>
    /\ UNCHANGED <<warp_vars, sqs_vars>>

\* line 275: await q1.join() returns
TestJoin ==
    /\ main.pc = "join"
    /\ joined(queues["q_in"])
    /\ main' = [main EXCEPT !.pc = "drain"]
    /\ UNCHANGED <<cfg, queues, worker, pump, producer, consumed, state, hist>>
    /\ UNCHANGED <<warp_vars, sqs_vars>>

\* lines 277-280: q2 is emptied into xx
TestDrain ==
    /\ main.pc = "drain"
    /\ consumed' = [xx |-> consumed.xx \o queues["q_out"].items, done |-> TRUE]
    /\ queues' = [queues EXCEPT !["q_out"].items = <<>>]
    /\ main' = [main EXCEPT !.pc = "done"]
    /\ UNCHANGED <<cfg, worker, pump, producer, state, hist>>
    /\ UNCHANGED <<warp_vars, sqs_vars>>

InitMap ==
    /\ \E content \in Contents(MaxLen), pt \in BOOLEAN, rs \in RaiseChoices,
          om \in 1..(MaxLen + 1) :
          /\ cfg = [func |-> "async_q2q_map", items |-> content, eos_passthrough |-> pt,
                    raises |-> rs, nconcurrent |-> 1]
          /\ queues = [name \in {"q_in", "q_out"} |->
                          IF name = "q_in" THEN QueueOf(content, MaxLen + 1) ELSE Queue(om)]
    /\ worker = [w \in {1} |-> MapStart]
    /\ main = [pc |-> "await_map"]
    /\ pump = <<>>
    /\ producer = 0
    /\ consumed = [xx |-> <<>>, done |-> FALSE]
    /\ state = [active |-> 0, max_active |-> 0]
    /\ hist = NoHistory({"q_in", "q_out"})
    /\ NoWarpCall
    /\ NoSqsCall

NextMap ==
    \/ MapGet(1, "q_in", cfg.eos_passthrough)
    \/ MapEosPut(1, "q_in", "q_out")
    \/ MapFuncReturns(1)
    \/ MapFuncRaises(1, "q_in")
    \/ MapPut(1, "q_in", "q_out")
    \/ TestAwaitMap
    \/ TestJoin
    \/ TestDrain

SpecMap == InitMap /\ [][NextMap]_vars

\* ------------------------------------ properties of async_q2q_map
\* the elements of s before its first marker
RECURSIVE BeforeMarker(_)
BeforeMarker(s) ==
    IF s = <<>> THEN <<>>
    ELSE IF Head(s) = EOS_MARKER THEN <<>>
    ELSE <<Head(s)>> \o BeforeMarker(Tail(s))

\* the elements of s that are not the marker
RECURSIVE Data(_)
Data(s) ==
    IF s = <<>> THEN <<>>
    ELSE (IF Head(s) = EOS_MARKER THEN <<>> ELSE <<Head(s)>>) \o Data(Tail(s))

\* what func returns for the items of s, in order, the items it raises for left out
RECURSIVE Results(_)
Results(s) ==
    IF s = <<>> THEN <<>>
    ELSE (IF Head(s) \in cfg.raises THEN <<>> ELSE <<proc(Head(s))>>) \o Results(Tail(s))

\* the items of s func raises for, in order
RECURSIVE Raising(_)
Raising(s) ==
    IF s = <<>> THEN <<>>
    ELSE (IF Head(s) \in cfg.raises THEN <<Head(s)>> ELSE <<>>) \o Raising(Tail(s))

IsPrefix(a, b) == Len(a) <= Len(b) /\ SubSeq(b, 1, Len(a)) = a

Markers(s) == {p \in DOMAIN s : s[p] = EOS_MARKER}

MapReturned == worker[1].pc = "returned"

\* func raises for none of the items on q_in
FuncNeverRaises == \A p \in DOMAIN cfg.items : cfg.items[p] \notin cfg.raises

\* what is left on q_in once the first marker is taken
AfterMarker == SubSeq(cfg.items, Len(BeforeMarker(cfg.items)) + 2, Len(cfg.items))

\* C14: async_q2q_map, the only consumer of q_in, with a func that returns for
\* every item: what it takes from q_in is, in order, the items before the first
\* marker and then that marker, and nothing after it; what it puts on q_out is,
\* in order, func(x) for these items and then, if and only if eos_passthrough is
\* True, the marker; once it has returned all of this is done and what followed
\* the marker is still on q_in.
C14_MapInOrder ==
    FuncNeverRaises =>
        LET data == BeforeMarker(cfg.items)
            expect_in == data \o <<EOS_MARKER>>
            expect_out == Results(data)
                              \o (IF cfg.eos_passthrough THEN <<EOS_MARKER>> ELSE <<>>)
        IN /\ IsPrefix(hist.gets["q_in"], expect_in)
           /\ IsPrefix(hist.puts["q_out"], expect_out)
           /\ Markers(hist.gets["q_in"]) # {} => worker[1].pc \in {"eos_put", "returned"}
           /\ MapReturned =>
                 /\ hist.gets["q_in"] = expect_in
                 /\ hist.puts["q_out"] = expect_out
                 /\ queues["q_in"].items = AfterMarker

\* two different items, the marker, and an item after it; eos_passthrough
C14_Witness ==
    /\ MapReturned
    /\ FuncNeverRaises
    /\ cfg.eos_passthrough
    /\ cfg.items = <<<<2>>, <<1>>, EOS_MARKER, <<2>>>>
    /\ hist.puts["q_out"] = <<<<2, 2>>, <<1, 1>>, EOS_MARKER>>
    /\ queues["q_in"].items = <<<<2>>>>

\* task_done is called once per element taken, the marker included, and for an
\* item only once its result is on the output queue
TaskDonePerElement ==
    /\ hist.done["q_in"] <= Len(hist.gets["q_in"])
    /\ hist.done["q_in"] >= Len(hist.gets["q_in"]) - 1
    /\ worker[1].pc \in {"get", "returned"} => hist.done["q_in"] = Len(hist.gets["q_in"])
    /\ queues["q_in"].unfinished = Len(cfg.items) - hist.done["q_in"]
    /\ IsPrefix(Results(Data(SubSeq(hist.gets["q_in"], 1, hist.done["q_in"]))),
                hist.puts["q_out"])

\* whenever q_in.join() can return, the result of every item put on q_in has
\* been put on q_out
JoinedAllMapped ==
    joined(queues["q_in"]) => Data(hist.puts["q_out"]) = Results(Data(cfg.items))

\* C15 as stated: task_done once per element taken, after the put of the
\* result, and so q_in.join() returns once async_q2q_map has returned, and
\* whenever it returns every result has been put.
C15_Original ==
    /\ TaskDonePerElement
    /\ MapReturned => joined(queues["q_in"])
    /\ JoinedAllMapped

\* C15: async_q2q_map calls task_done on q_in once per element it takes, the
\* marker included, and for an item only after its result was put on q_out;
\* q_in.join() returns once async_q2q_map has returned if nothing was put on
\* q_in after the first marker; whenever join returns every result has been put.
C15_TaskDone ==
    /\ TaskDonePerElement
    /\ (MapReturned /\ AfterMarker = <<>>) => joined(queues["q_in"])
    /\ JoinedAllMapped

\* run_test is past q1.join() with two results put before it
C15_Witness ==
    /\ main.pc \in {"drain", "done"}
    /\ cfg.items = <<<<1>>, <<2>>, EOS_MARKER>>
    /\ cfg.raises = {}
    /\ hist.done["q_in"] = 3
    /\ Data(hist.puts["q_out"]) = <<<<1, 1>>, <<2, 2>>>>

\* func raises for an item before the marker
FuncRaisesBeforeMarker ==
    \E p \in DOMAIN BeforeMarker(cfg.items) : cfg.items[p] \in cfg.raises

\* C16: when func raises for an item, the exception is logged, nothing is put
\* on q_out for the item, task_done is called for it, and the loop goes on:
\* the call returns only on the marker, having taken every item before it and
\* put the result of each item func returned for.
C16_ExceptionIgnored ==
    FuncRaisesBeforeMarker =>
        /\ \A p \in DOMAIN hist.puts["q_out"] :
              \A x \in cfg.raises : hist.puts["q_out"][p] # proc(x)
        /\ IsPrefix(Data(hist.puts["q_out"]), Results(BeforeMarker(cfg.items)))
        /\ IsPrefix(hist.logged, Raising(BeforeMarker(cfg.items)))
        /\ worker[1].pc \in {"get", "returned"} =>
              /\ hist.logged = Raising(Data(hist.gets["q_in"]))
              /\ hist.done["q_in"] = Len(hist.gets["q_in"])
        /\ MapReturned =>
              /\ hist.gets["q_in"] = BeforeMarker(cfg.items) \o <<EOS_MARKER>>
              /\ Data(hist.puts["q_out"]) = Results(BeforeMarker(cfg.items))

\* func raised for <<1>>, and the items after it were mapped
C16_Witness ==
    /\ MapReturned
    /\ cfg.items = <<<<2>>, <<1>>, <<3>>, EOS_MARKER>>
    /\ cfg.raises = {<<1>>}
    /\ hist.logged = <<<<1>>>>
    /\ Data(hist.puts["q_out"]) = <<<<2, 2>>, <<3, 3>>>>
    /\ hist.done["q_in"] = 4

\* ------------------------------------------------------ q2q_nmap
\* faulty variant: one worker more than nconcurrent is launched
WorkersOneMore == 1..(cfg.nconcurrent + 1)

\* lines 230, 107-108: range(nconcurrent), the coroutines of the worker pool
Workers == 1..cfg.nconcurrent

\* lines 196-201: intake_loop takes an element of q_in: the marker ends the
\* loop, an item is held for aq_in
IntakeGet ==
    /\ main.pc = "intake"
    /\ ~empty(queues["q_in"])
    /\ LET x == Head(queues["q_in"].items)
       IN IF x = EOS_MARKER
          THEN /\ queues' = task_done(get(queues, "q_in"), "q_in")
               /\ hist' = LogDone(LogGet(hist, "q_in", x), "q_in")
               /\ main' = [main EXCEPT !.pc = "send_eos"]
          ELSE /\ queues' = get(queues, "q_in")
               /\ hist' = LogGet(hist, "q_in", x)
               /\ main' = [main EXCEPT !.pc = "intake_put", !.x = <<x>>]
    /\ UNCHANGED <<cfg, worker, pump, producer, consumed, state>>
    /\ UNCHANGED <<warp_vars, sqs_vars>>

\* lines 203-204: await dst.put(x); src.task_done()
IntakePut ==
    /\ main.pc = "intake_put"
    /\ ~full(queues["aq_in"])
    /\ queues' = task_done(put(queues, "aq_in", main.x[1]), "q_in")
    /\ hist' = LogDone(LogPut(hist, "aq_in", main.x[1]), "q_in")
    /\ main' = [main EXCEPT !.pc = "intake", !.x = <<>>]
    /\ UNCHANGED <<cfg, worker, pump, producer, consumed, state>>
    /\ UNCHANGED <<warp_vars, sqs_vars>>

\* lines 206-207: one marker per worker is put on aq_in
IntakeEos ==
    /\ main.pc = "send_eos"
    /\ ~full(queues["aq_in"])
    /\ queues' = put(queues, "aq_in", EOS_MARKER)
    /\ hist' = LogPut(hist, "aq_in", EOS_MARKER)
    /\ main' = [main EXCEPT !.k = @ + 1,
                            !.pc = IF main.k + 1 = cfg.nconcurrent THEN "join_in"
                                   ELSE "send_eos"]
    /\ UNCHANGED <<cfg, worker, pump, producer, consumed, state>>
    /\ UNCHANGED <<warp_vars, sqs_vars>>

\* line 209: await dst.join() returns; intake_loop returns to q2q_nmap
IntakeJoin ==
    /\ main.pc = "join_in"
    /\ joined(queues["aq_in"])
    /\ main' = [main EXCEPT !.pc = "put_eos"]
    /\ UNCHANGED <<cfg, queues, worker, pump, producer, consumed, state, hist>>
    /\ UNCHANGED <<warp_vars, sqs_vars>>

\* line 245: await aq_out.put(eos_marker)
NmapPutEos ==
    /\ main.pc = "put_eos"
    /\ ~full(queues["aq_out"])
    /\ queues' = put(queues, "aq_out", EOS_MARKER)
    /\ hist' = LogPut(hist, "aq_out", EOS_MARKER)
    /\ main' = [main EXCEPT !.pc = "join_out"]
    /\ UNCHANGED <<cfg, worker, pump, producer, consumed, state>>
    /\ UNCHANGED <<warp_vars, sqs_vars>>

\* faulty variant: q2q_nmap does not wait for aq_out.join()
NmapNoJoin ==
    /\ main.pc = "join_out"
    /\ main' = [main EXCEPT !.pc = IF cfg.eos_passthrough THEN "push_eos" ELSE "returned"]
    /\ UNCHANGED <<cfg, queues, worker, pump, producer, consumed, state, hist>>
    /\ UNCHANGED <<warp_vars, sqs_vars>>

\* lines 246, 249: await aq_out.join() returns; without eos_passthrough
\* q2q_nmap returns
NmapJoin ==
    /\ main.pc = "join_out"
    /\ joined(queues["aq_out"])
    /\ main' = [main EXCEPT !.pc = IF cfg.eos_passthrough THEN "push_eos" ELSE "returned"]
    /\ UNCHANGED <<cfg, queues, worker, pump, producer, consumed, state, hist>>
    /\ UNCHANGED <<warp_vars, sqs_vars>>

\* lines 249-250: push_to_dst(eos_marker, q_out, dt); q2q_nmap returns
NmapPushEos ==
    /\ main.pc = "push_eos"
    /\ ~full(queues["q_out"])
    /\ queues' = put(queues, "q_out", EOS_MARKER)
    /\ hist' = LogPut(hist, "q_out", EOS_MARKER)
    /\ main' = [main EXCEPT !.pc = "returned"]
    /\ UNCHANGED <<cfg, worker, pump, producer, consumed, state>>
    /\ UNCHANGED <<warp_vars, sqs_vars>>

\* lines 213-217: output_loop takes an element of aq_out: the marker ends it
OutputGet ==
    /\ pump.pc = "get"
    /\ ~empty(queues["aq_out"])
    /\ LET x == Head(queues["aq_out"].items)
       IN IF x = EOS_MARKER
          THEN /\ queues' = task_done(get(queues, "aq_out"), "aq_out")
               /\ hist' = LogDone(LogGet(hist, "aq_out", x), "aq_out")
               /\ pump' = [pump EXCEPT !.pc = "returned"]
          ELSE /\ queues' = get(queues, "aq_out")
               /\ hist' = LogGet(hist, "aq_out", x)
               /\ pump' = [pc |-> "push", x |-> <<x>>]
    /\ UNCHANGED <<cfg, worker, main, producer, consumed, state>>
    /\ UNCHANGED <<warp_vars, sqs_vars>>

\* faulty variant: the element is dropped when q_out is full
OutputPushOnce ==
    /\ pump.pc = "push"
    /\ IF full(queues["q_out"])
       THEN /\ queues' = task_done(queues, "aq_out")
            /\ hist' = LogDone(hist, "aq_out")
       ELSE /\ queues' = task_done(put(queues, "q_out", pump.x[1]), "aq_out")
            /\ hist' = LogDone(LogPut(hist, "q_out", pump.x[1]), "aq_out")
    /\ pump' = [pc |-> "get", x |-> <<>>]
    /\ UNCHANGED <<cfg, worker, main, producer, consumed, state>>
    /\ UNCHANGED <<warp_vars, sqs_vars>>

\* lines 219-220: push_to_dst(x, dst, dt) gets through; src.task_done()
OutputPush ==
    /\ pump.pc = "push"
    /\ ~full(queues["q_out"])
    /\ queues' = task_done(put(queues, "q_out", pump.x[1]), "aq_out")
    /\ hist' = LogDone(LogPut(hist, "q_out", pump.x[1]), "aq_out")
    /\ pump' = [pc |-> "get", x |-> <<>>]
    /\ UNCHANGED <<cfg, worker, main, producer, consumed, state>>
    /\ UNCHANGED <<warp_vars, sqs_vars>>

\* ------------------------------------------------- test_q2qnmap
\* lines 305-307: run_producer puts the next item, or the marker after the last
ProducerPut ==
    /\ producer <= Len(cfg.items)
    /\ ~full(queues["q_in"])
    /\ LET x == IF producer < Len(cfg.items) THEN cfg.items[producer + 1] ELSE EOS_MARKER
       IN /\ queues' = put(queues, "q_in", x)
          /\ hist' = LogPut(hist, "q_in", x)
    /\ producer' = producer + 1
    /\ UNCHANGED <<cfg, worker, main, pump, consumed, state>>
    /\ UNCHANGED <<warp_vars, sqs_vars>>

\* line 308: q.join() returns in run_producer
ProducerJoin ==
    /\ producer = Len(cfg.items) + 1
    /\ joined(queues["q_in"])
    /\ producer' = producer + 1
    /\ UNCHANGED <<cfg, queues, worker, main, pump, consumed, state, hist>>
    /\ UNCHANGED <<warp_vars, sqs_vars>>

\* lines 312-317: run_consumer takes an element of q_out, until the marker
ConsumerGet ==
    /\ ~consumed.done
    /\ ~empty(queues["q_out"])
    /\ LET x == Head(queues["q_out"].items)
       IN /\ queues' = task_done(get(queues, "q_out"), "q_out")
          /\ consumed' = [xx |-> Append(consumed.xx, x), done |-> x = EOS_MARKER]
    /\ UNCHANGED <<cfg, worker, main, pump, producer, state, hist>>
    /\ UNCHANGED <<warp_vars, sqs_vars>>

\* lines 344-345: after q2q_nmap without eos_passthrough the test puts the
\* marker itself (a put of the test: not in the record of q2q_nmap's puts)
TestPutEos ==
    /\ main.pc = "returned"
    /\ ~cfg.eos_passthrough
    /\ ~full(queues["q_out"])
    /\ queues' = put(queues, "q_out", EOS_MARKER)
    /\ main' = [main EXCEPT !.pc = "done"]
    /\ UNCHANGED <<cfg, worker, pump, producer, consumed, state, hist>>
    /\ UNCHANGED <<warp_vars, sqs_vars>>

\* lines 222-240 under run_test (340-342): the queues aq_in and aq_out are
\* built, the workers and output_loop are launched, intake_loop is entered
InitNmap ==
    /\ \E nc \in 1..MaxWorkers, pt \in BOOLEAN, total \in 0..MaxItems,
          rs \in RaiseChoices, im \in 1..MaxQueue, om \in 1..MaxQueue :
          /\ cfg = [func |-> "q2q_nmap", items |-> [k \in 1..total |-> <<k>>],
                    eos_passthrough |-> pt, raises |-> rs, nconcurrent |-> nc]
          /\ queues = [name \in {"q_in", "aq_in", "aq_out", "q_out"} |->
                          Queue(CASE name = "q_in" -> im
                                  [] name = "q_out" -> om
                                  [] OTHER -> nc * 2)]
    /\ worker = [w \in Workers |-> MapStart]
    /\ main = [pc |-> "intake", x |-> <<>>, k |-> 0]
    /\ pump = [pc |-> "get", x |-> <<>>]
    /\ producer = 0
    /\ consumed = [xx |-> <<>>, done |-> FALSE]
    /\ state = [active |-> 0, max_active |-> 0]
    /\ hist = NoHistory({"q_in", "aq_in", "aq_out", "q_out"})
    /\ NoWarpCall
    /\ NoSqsCall

NextNmap ==
    \/ \E w \in Workers : MapGet(w, "aq_in", FALSE)
    \/ \E w \in Workers : MapFuncReturns(w)
    \/ \E w \in Workers : MapFuncRaises(w, "aq_in")
    \/ \E w \in Workers : MapPut(w, "aq_in", "aq_out")
    \/ IntakeGet
    \/ IntakePut
    \/ IntakeEos
    \/ IntakeJoin
    \/ NmapPutEos
    \/ NmapJoin
    \/ NmapPushEos
    \/ OutputGet
    \/ OutputPush
    \/ ProducerPut
    \/ ProducerJoin
    \/ ConsumerGet
    \/ TestPutEos

SpecNmap == InitNmap /\ [][NextNmap]_vars

\* ----------------------------------------- properties of q2q_nmap
\* q2q_nmap has returned to run_test
NmapReturned == main.pc \in {"returned", "done"}

\* how many times v is in s
Count(s, v) == Cardinality({p \in DOMAIN s : s[p] = v})

\* the items of the producer func returns a result for
Mapped == {x \in Range(cfg.items) : x \notin cfg.raises}

\* the result of every item func returns for is among s, once
AllResultsOnce(s) == \A x \in Mapped : Count(s, proc(x)) = 1

\* C11: with a func that does not raise, whatever the interleaving of the
\* producer, intake_loop, the workers, output_loop and the consumer, and with
\* bounded q_in and q_out: what q2q_nmap puts on q_out is a result of an item
\* of the producer or the marker, no result is put twice, when q2q_nmap has
\* returned the result of every item has been put once, and the run stops only
\* when q2q_nmap has returned and the consumer has taken all that was put.
C11_ExactlyOnce ==
    FuncNeverRaises =>
        /\ \A p \in DOMAIN hist.puts["q_out"] :
              \/ hist.puts["q_out"][p] = EOS_MARKER
              \/ \E x \in Range(cfg.items) : hist.puts["q_out"][p] = proc(x)
        /\ \A x \in Range(cfg.items) : Count(hist.puts["q_out"], proc(x)) <= 1
        /\ NmapReturned => AllResultsOnce(hist.puts["q_out"])
        /\ ~ENABLED NextNmap =>
              /\ NmapReturned
              /\ AllResultsOnce(consumed.xx)
              /\ Len(Data(consumed.xx)) = Len(cfg.items)
              /\ empty(queues["q_out"])

\* three items through queues of size one and two workers, the results
\* delivered in another order than the items
C11_Witness ==
    /\ NmapReturned
    /\ FuncNeverRaises
    /\ Len(cfg.items) = 3
    /\ cfg.nconcurrent = 2
    /\ queues["q_in"].maxsize = 1
    /\ queues["q_out"].maxsize = 1
    /\ Data(hist.puts["q_out"]) = <<<<2, 2>>, <<3, 3>>, <<1, 1>>>>
    /\ Data(consumed.xx) = Data(hist.puts["q_out"])

\* C12: the number of calls of func started and not finished (state.active, and
\* the workers inside func) is never above nconcurrent, nor is the maximum the
\* test records.
C12_AtMostNconcurrent ==
    /\ state.active <= cfg.nconcurrent
    /\ state.max_active <= cfg.nconcurrent
    /\ state.active = Cardinality({w \in DOMAIN worker : worker[w].pc = "call"})

\* nconcurrent calls are running while a further item waits on aq_in
C12_Witness ==
    /\ state.active = 2
    /\ cfg.nconcurrent = 2
    /\ Data(queues["aq_in"].items) # <<>>

\* C13: q2q_nmap puts the marker on q_out only after the result of every item
\* func returns for: with eos_passthrough at most one marker is put, it is the
\* last element put, every result is before it, and it has been put when
\* q2q_nmap returns; without eos_passthrough no marker is put; when q2q_nmap
\* returns every result has been put on q_out.
C13_MarkerLast ==
    /\ Markers(hist.puts["q_out"]) \subseteq {Len(hist.puts["q_out"])}
    /\ Markers(hist.puts["q_out"]) # {} =>
          cfg.eos_passthrough /\ AllResultsOnce(hist.puts["q_out"])
    /\ NmapReturned =>
          /\ AllResultsOnce(hist.puts["q_out"])
          /\ Len(Data(hist.puts["q_out"])) = Cardinality(Mapped)
          /\ cfg.eos_passthrough => Count(hist.puts["q_out"], EOS_MARKER) = 1
          /\ ~cfg.eos_passthrough => Count(hist.puts["q_out"], EOS_MARKER) = 0

\* the marker follows three results
C13_Witness ==
    /\ NmapReturned
    /\ cfg.eos_passthrough
    /\ cfg.raises = {}
    /\ Len(hist.puts["q_out"]) = 4
    /\ hist.puts["q_out"][4] = EOS_MARKER
    /\ Markers(hist.puts["q_out"]) = {4}

\* --------------------------------------------------- gen2q_async
\* worker(idx) of gen2q_async, with func the gen_func of test_gen2q, which may
\* also raise while it sleeps
GenStart == [pc |-> "call", x |-> <<>>, n |-> 0]

\* lines 96, 101-102 (and 374-378 of gen_func): func is called: it returns the
\* marker when the count is used up, and the worker returns n; or it takes the
\* next count and sleeps
GenCall(w) ==
    /\ worker[w].pc = "call"
    /\ IF state.count >= cfg.max_count
       THEN /\ worker' = [worker EXCEPT ![w].pc = "returned"]
            /\ state' = state
       ELSE /\ worker' = [worker EXCEPT ![w].pc = "func", ![w].x = <<<<state.count>>>>]
            /\ state' = [state EXCEPT !.count = @ + 1]
    /\ UNCHANGED <<cfg, queues, main, pump, producer, consumed, hist>>
    /\ UNCHANGED <<warp_vars, sqs_vars>>

\* lines 96, 101-103 (and 380-381 of gen_func): func returns a value; n += 1
GenFuncReturns(w) ==
    /\ worker[w].pc = "func"
    /\ worker' = [worker EXCEPT ![w].pc = "put", ![w].n = @ + 1]
    /\ hist' = [hist EXCEPT !.returned = Append(@, [idx |-> w, v |-> worker[w].x[1]])]
    /\ UNCHANGED <<cfg, queues, main, pump, producer, consumed, state>>
    /\ UNCHANGED <<warp_vars, sqs_vars>>

\* lines 97-99: func raises: the exception is logged and the worker returns n
GenFuncRaises(w) ==
    /\ worker[w].pc = "func"
    /\ worker' = [worker EXCEPT ![w].pc = "returned", ![w].x = <<>>]
    /\ hist' = [hist EXCEPT !.logged = Append(@, [idx |-> w,
                                                  at |-> Len(hist.puts["q_out"])])]
    /\ UNCHANGED <<cfg, queues, main, pump, producer, consumed, state>>
    /\ UNCHANGED <<warp_vars, sqs_vars>>

\* line 104: await q_out.put(x)
GenPut(w) ==
    /\ worker[w].pc = "put"
    /\ ~full(queues["q_out"])
    /\ queues' = put(queues, "q_out", worker[w].x[1])
    /\ hist' = LogPut(hist, "q_out", worker[w].x[1])
    /\ worker' = [worker EXCEPT ![w].pc = "call", ![w].x = <<>>]
    /\ UNCHANGED <<cfg, main, pump, producer, consumed, state>>
    /\ UNCHANGED <<warp_vars, sqs_vars>>

\* faulty variant: only the first worker is awaited
GenAwaitFirst ==
    /\ main.pc = "await"
    /\ worker[1].pc = "returned"
    /\ main' = [pc |-> IF cfg.eos_passthrough THEN "put_eos" ELSE "returned",
                f |-> cfg.nconcurrent,
                n_total |-> worker[1].n]
    /\ UNCHANGED <<cfg, queues, worker, pump, producer, consumed, state, hist>>
    /\ UNCHANGED <<warp_vars, sqs_vars>>

\* lines 110-114: the next future of ff has its result: n_total += (await f);
\* after the last one the marker is due, or gen2q_async returns n_total
GenAwait ==
    /\ main.pc = "await"
    /\ worker[main.f].pc = "returned"
    /\ main' = [pc |-> IF main.f < cfg.nconcurrent THEN "await"
                       ELSE IF cfg.eos_passthrough THEN "put_eos" ELSE "returned",
                f |-> IF main.f < cfg.nconcurrent THEN main.f + 1 ELSE main.f,
                n_total |-> main.n_total + worker[main.f].n]
    /\ UNCHANGED <<cfg, queues, worker, pump, producer, consumed, state, hist>>
    /\ UNCHANGED <<warp_vars, sqs_vars>>

\* lines 114-117: await q_out.put(eos_marker); return n_total
GenPutEos ==
    /\ main.pc = "put_eos"
    /\ ~full(queues["q_out"])
    /\ queues' = put(queues, "q_out", EOS_MARKER)
    /\ hist' = LogPut(hist, "q_out", EOS_MARKER)
    /\ main' = [main EXCEPT !.pc = "returned"]
    /\ UNCHANGED <<cfg, worker, pump, producer, consumed, state>>
    /\ UNCHANGED <<warp_vars, sqs_vars>>

\* lines 383-390: sink of test_gen2q takes an element of the queue, until the marker
Sink ==
    /\ ~consumed.done
    /\ ~empty(queues["q_out"])
    /\ LET x == Head(queues["q_out"].items)
       IN /\ queues' = get(queues, "q_out")
          /\ consumed' = IF x = EOS_MARKER THEN [consumed EXCEPT !.done = TRUE]
                         ELSE [consumed EXCEPT !.xx = Append(@, x)]
    /\ UNCHANGED <<cfg, worker, main, pump, producer, state, hist>>
    /\ UNCHANGED <<warp_vars, sqs_vars>>

\* lines 107-110 under run_async (393-400): the workers are launched
InitGen ==
    /\ \E nc \in 1..MaxWorkers, pt \in BOOLEAN, mc \in 0..MaxCount, om \in 1..MaxQueue :
          /\ cfg = [func |-> "gen2q_async", items |-> <<>>, eos_passthrough |-> pt,
                    raises |-> {}, nconcurrent |-> nc, max_count |-> mc]
          /\ queues = [name \in {"q_out"} |-> Queue(om)]
    /\ worker = [w \in Workers |-> GenStart]
    /\ main = [pc |-> "await", f |-> 1, n_total |-> 0]
    /\ pump = <<>>
    /\ producer = 0
    /\ consumed = [xx |-> <<>>, done |-> FALSE]
    /\ state = [count |-> 0]
    /\ hist = NoHistory({"q_out"})
    /\ NoWarpCall
    /\ NoSqsCall

NextGen ==
    \/ \E w \in Workers : GenCall(w)
    \/ \E w \in Workers : GenFuncReturns(w)
    \/ \E w \in Workers : GenFuncRaises(w)
    \/ \E w \in Workers : GenPut(w)
    \/ GenAwait
    \/ GenPutEos
    \/ Sink

SpecGen == InitGen /\ [][NextGen]_vars

\* -------------------------------------- properties of gen2q_async
GenReturned == main.pc = "returned"

\* worker w holds a value func returned to it that it has not put yet
Holds(w, v) == worker[w].pc = "put" /\ worker[w].x = <<v>>

\* the values func returned to worker w, in order
RECURSIVE ReturnedTo(_, _)
ReturnedTo(w, s) ==
    IF s = <<>> THEN <<>>
    ELSE (IF Head(s).idx = w THEN <<Head(s).v>> ELSE <<>>) \o ReturnedTo(w, Tail(s))

\* C17: gen2q_async returns, once its nconcurrent workers have returned, the
\* number of values they put on q_out; a value func returned is put once (when
\* its worker is past the put), and only such values and the marker are put;
\* the marker is put only with eos_passthrough, once, after all workers have
\* returned, and so it is the last element; a worker whose func raised has
\* returned, puts nothing from then on and has put what func returned to it
\* before, and the run stops only when gen2q_async has returned.
C17_GenCounts ==
    /\ GenReturned =>
          /\ \A w \in Workers : worker[w].pc = "returned"
          /\ main.n_total = Len(Data(hist.puts["q_out"]))
          /\ cfg.eos_passthrough => Count(hist.puts["q_out"], EOS_MARKER) = 1
    /\ \A p \in DOMAIN hist.returned :
          Count(hist.puts["q_out"], hist.returned[p].v)
              = IF Holds(hist.returned[p].idx, hist.returned[p].v) THEN 0 ELSE 1
    /\ \A p \in DOMAIN hist.puts["q_out"] :
          \/ hist.puts["q_out"][p] = EOS_MARKER
          \/ \E r \in DOMAIN hist.returned : hist.returned[r].v = hist.puts["q_out"][p]
    /\ \A w \in Workers : worker[w].n = Len(ReturnedTo(w, hist.returned))
    /\ Markers(hist.puts["q_out"]) \subseteq {Len(hist.puts["q_out"])}
    /\ Markers(hist.puts["q_out"]) # {} =>
          cfg.eos_passthrough /\ \A w \in Workers : worker[w].pc = "returned"
    /\ \A l \in DOMAIN hist.logged :
          LET w == hist.logged[l].idx
          IN /\ worker[w].pc = "returned"
             /\ \A p \in DOMAIN hist.puts["q_out"] :
                   (\E r \in DOMAIN hist.returned :
                        hist.returned[r].idx = w /\ hist.returned[r].v = hist.puts["q_out"][p])
                       => p <= hist.logged[l].at
             /\ \A r \in DOMAIN hist.returned :
                   hist.returned[r].idx = w => Count(hist.puts["q_out"], hist.returned[r].v) = 1
    /\ ~ENABLED NextGen =>
          /\ GenReturned
          /\ empty(queues["q_out"])
          /\ consumed.xx = Data(hist.puts["q_out"])

\* func raised for the first worker before it put anything; the second worker
\* went on and put two values after that; the marker follows them
C17_Witness ==
    /\ GenReturned
    /\ cfg.eos_passthrough
    /\ cfg.nconcurrent = 2
    /\ hist.logged = <<[idx |-> 1, at |-> 0]>>
    /\ worker[2].n = 2
    /\ main.n_total = 2
    /\ Len(hist.puts["q_out"]) = 3
    /\ hist.puts["q_out"][3] = EOS_MARKER

\* =================================================== sqs_to_dc
\* queue_to_odc of apps/dc_tools/odc/apps/dc_tools/sqs_to_dc.py.  A message
\* of the queue is [body, id, uri, ds, deleted]: whether its body yields
\* metadata (extract_metadata_from_message), the dataset id of the metadata (a
\* valid UUID), whether the metadata carries a "self" link (get_metadata_uri),
\* whether Doc2Dataset resolves it to a dataset, and whether the message was
\* deleted.  The index of dc is the sets of ids present before the call,
\* archived, added and updated.  There is no region-code list and no
\* record_path.
MaxMessages == 2   \* the queue yields up to MaxMessages messages

MaxIds == 2        \* dataset ids are 1..MaxIds

MessageKinds ==
    [body : {"ok", "bad"}, id : 1..MaxIds, uri : BOOLEAN, ds : BOOLEAN, deleted : {FALSE}]

RECURSIVE MessageLists(_)
MessageLists(len) ==
    IF len = 0 THEN {<<>>}
    ELSE MessageLists(len - 1)
         \cup {Append(s, m) : s \in MessageLists(len - 1), m \in MessageKinds}

\* lines 63-75, 85: the uri get_metadata_uri returns without odc_metadata_link
get_metadata_uri(msg) == IF msg.uri THEN "self" ELSE "None"

\* lines 137-142: do_archiving: the index after dc.index.datasets.archive(ids)
do_archiving(msg, index) == [index EXCEPT !.archived = @ \cup {msg.id}]

\* lines 145-176: do_indexing: whether it raises SQStoDCException, and the
\* index after it
do_indexing(msg, uri, index, update) ==
    IF uri = "None" THEN [raised |-> TRUE, index |-> index]
    ELSE IF ~msg.ds THEN [raised |-> TRUE, index |-> index]
    ELSE IF update
         THEN [raised |-> FALSE, index |-> [index EXCEPT !.updated = @ \cup {msg.id}]]
    ELSE IF msg.id \in index.present \cup index.added
         THEN [raised |-> FALSE, index |-> index]
    ELSE [raised |-> FALSE, index |-> [index EXCEPT !.added = @ \cup {msg.id}]]

\* lines 246-249: except SQStoDCException: logging.error(err); ds_failed += 1
Failed(locals) == [locals EXCEPT !.ds_failed = @ + 1, !.m = @ + 1]

\* lines 213-249: one turn of the loop over the messages.  The local uri is
\* bound only on the path that is not the archive path (lines 223-227); line
\* 243 reads it on both paths, and reading it unbound raises
\* UnboundLocalError, which is no SQStoDCException and leaves queue_to_odc.
ProcessMessage ==
    /\ qto.pc = "loop"
    /\ qto.m <= Len(messages)
    /\ LET msg == messages[qto.m]
           index == IF qto.archive THEN do_archiving(msg, dc) ELSE dc
           uri == IF qto.archive THEN qto.uri ELSE get_metadata_uri(msg)
           done == do_indexing(msg, uri, index, qto.update)
       IN IF msg.body # "ok"
          THEN /\ qto' = Failed(qto)
               /\ UNCHANGED <<dc, messages>>
          ELSE IF uri = "unbound"
               THEN /\ dc' = index
                    /\ qto' = [qto EXCEPT !.pc = "raised", !.error = "UnboundLocalError",
                                          !.m = @ + 1]
                    /\ UNCHANGED messages
               ELSE IF done.raised
                    THEN /\ dc' = index
                         /\ qto' = [Failed(qto) EXCEPT !.uri = uri]
                         /\ UNCHANGED messages
                    ELSE /\ dc' = done.index
                         /\ qto' = [qto EXCEPT !.ds_success = @ + 1, !.m = @ + 1,
                                               !.uri = uri]
                         /\ messages' = [messages EXCEPT ![qto.m].deleted = TRUE]
    /\ UNCHANGED <<warp_vars, queue_vars>>

\* line 251: return ds_success, ds_failed
ReturnCounts ==
    /\ qto.pc = "loop"
    /\ qto.m > Len(messages)
    /\ qto' = [qto EXCEPT !.pc = "returned"]
    /\ UNCHANGED <<dc, messages>>
    /\ UNCHANGED <<warp_vars, queue_vars>>

\* lines 179-211: queue_to_odc is entered
InitSqs ==
    /\ messages \in MessageLists(MaxMessages)
    /\ \E present \in {{}, {1}} :
          dc = [present |-> present, archived |-> {}, added |-> {}, updated |-> {}]
    /\ \E archive \in BOOLEAN, update \in BOOLEAN :
          qto = [pc |-> "loop", m |-> 1, archive |-> archive, update |-> update,
                 ds_success |-> 0, ds_failed |-> 0, uri |-> "unbound", error |-> "none"]
    /\ NoWarpCall
    /\ NoQueueCall

NextSqs ==
    \/ ProcessMessage
    \/ ReturnCounts

SpecSqs == InitSqs /\ [][NextSqs]_vars

\* ------------------------------------- properties of queue_to_odc
\* the messages the loop has taken whose metadata was extracted
Extracted == {p \in 1..(qto.m - 1) : messages[p].body = "ok"}

\* C18 as stated: in a call with archive=True every message taken whose
\* metadata is extracted has its dataset id archived, is counted as a success
\* and deleted from the queue, and no dataset is added or updated.
C18_ArchiveMode ==
    qto.archive =>
        /\ \A p \in Extracted : messages[p].id \in dc.archived /\ messages[p].deleted
        /\ qto.ds_success = Cardinality(Extracted)
        /\ dc.added = {}
        /\ dc.updated = {}

\* the first message whose metadata is extracted is archived, then line 243
\* raises: the message is neither counted nor deleted, and the call is over
C18_Witness ==
    /\ qto.archive
    /\ qto.pc = "raised"
    /\ qto.error = "UnboundLocalError"
    /\ Extracted # {}
    /\ \A p \in Extracted : messages[p].id \in dc.archived /\ ~messages[p].deleted
    /\ qto.ds_success = 0
    /\ qto.m <= Len(messages)

\* ====================== the arguments of the resample tasks (_warp.py)
\* the tiles (tile-row, tile-col) of the returned array
ResultTiles == {TileOf(k) : k \in BlockCoords}

\* the world rectangle of tile t of the destination grid
TileWorldRect(t) ==
    [y1 |-> arg.dst_geobox.y0 + TileRect(t).y1, y2 |-> arg.dst_geobox.y0 + TileRect(t).y2,
     x1 |-> arg.dst_geobox.x0 + TileRect(t).x1, x2 |-> arg.dst_geobox.x0 + TileRect(t).x2]

\* the rows and columns of the source grid that lie under tile t: the part of
\* the tile's rectangle inside the source footprint, in source pixels
SrcWindowUnder(t) ==
    Roi(Max(TileWorldRect(t).y1, SrcRect.y1) - SrcRect.y1,
        Min(TileWorldRect(t).y2, SrcRect.y2) - SrcRect.y1,
        Max(TileWorldRect(t).x1, SrcRect.x1) - SrcRect.x1,
        Min(TileWorldRect(t).x2, SrcRect.x2) - SrcRect.x1)

\* the combinations of block indices of the axes before row/col
PrefixBlocks == NdIndex(Lens(Take(arg.src.chunks, axis)))

\* tile t is partly outside the source footprint
PartlyOutside(t) ==
    /\ Overlaps(TileWorldRect(t), SrcRect)
    /\ \/ TileWorldRect(t).y1 < SrcRect.y1 \/ TileWorldRect(t).y2 > SrcRect.y2
       \/ TileWorldRect(t).x1 < SrcRect.x1 \/ TileWorldRect(t).x2 > SrcRect.x2

\* C19: in the returned graph, for each tile that intersects the source
\* footprint (each tile of xy_chunks_with_data, which holds every tile sharing
\* area with the footprint) and each combination of prefix block indices there
\* is a resample task at key (prefix indices, tile-row, tile-col), these are
\* all the resample tasks, and the task names block (prefix indices, 0, 0) of
\* the source cropped to the source window under the tile, which is among the
\* dependencies; its source grid is the source grid windowed by that window
\* and its destination grid is the grid of the whole tile.
C19_ResampleArguments ==
    Returned =>
        /\ \A t \in ResultTiles : Overlaps(TileWorldRect(t), SrcRect) =>
              t \in Range(xy_chunks_with_data)
        /\ Cardinality(ResampleKeys(result[1].dsk))
               = Len(xy_chunks_with_data) * Cardinality(PrefixBlocks)
        /\ \A t \in Range(xy_chunks_with_data) : \A ii1 \in PrefixBlocks :
              /\ ii1 \o t \in ResampleKeys(result[1].dsk)
              /\ LET task == result[1].dsk[ii1 \o t]
                     win == SrcWindowUnder(t)
                 IN /\ task.block = ii1 \o <<0, 0>>
                    /\ task.arr.base = arg.src.name.base
                    /\ task.arr.crop = <<win.r0, win.r1, win.c0, win.c1>>
                    /\ \E d \in Range(result[1].deps) :
                          /\ d.name = task.arr
                          /\ d.shape = Take(arg.src.shape, axis) \o RoiShape(win)
                          /\ Lens(d.chunks) = Lens(Take(arg.src.chunks, axis)) \o <<1, 1>>
                    /\ task.src_geobox = [y0 |-> arg.src_geobox.y0 + win.r0,
                                          x0 |-> arg.src_geobox.x0 + win.c0,
                                          shape |-> RoiShape(win)]
                    /\ task.dst_geobox = [y0 |-> TileWorldRect(t).y1,
                                          x0 |-> TileWorldRect(t).x1,
                                          shape |-> TileShape(t)]

\* a tile partly outside the source footprint, with two prefix blocks: its
\* tasks are given a source window smaller than the tile
C19_Witness ==
    /\ Returned
    /\ Cardinality(PrefixBlocks) = 2
    /\ \E t \in Range(xy_chunks_with_data) :
          /\ PartlyOutside(t)
          /\ RoiShape(SrcWindowUnder(t)) # TileShape(t)
          /\ \A ii1 \in PrefixBlocks :
                /\ ii1 \o t \in ResampleKeys(result[1].dsk)
                /\ result[1].dsk[ii1 \o t].src_geobox.shape = RoiShape(SrcWindowUnder(t))
                /\ result[1].dsk[ii1 \o t].dst_geobox.shape = TileShape(t)

====
